---- MODULE Spec2Model ----
(***************************************************************************)
(* Model of chemprop/uncertainty/uncertainty_calibrator.py:                *)
(* the UncertaintyCalibrator constructor template, its three subclasses    *)
(* (ZScalingCalibrator, TScalingCalibrator, ZelikmanCalibrator) and        *)
(* uncertainty_calibrator_builder.                                         *)
(*                                                                         *)
(* A caller calls the builder or a constructor; the call is followed       *)
(* statement by statement (pc is the position in the code), so that the    *)
(* state at the moment an exception is raised can be inspected.  A         *)
(* calibrator that was returned can be applied to evaluation predictors.   *)
(*                                                                         *)
(* Numbers.  Variances are perfect squares, so np.sqrt is exact.  The      *)
(* Zelikman quantile is computed exactly in fixed point (units of 1/200).  *)
(* The result of scipy's fmin is a real number the model cannot compute:   *)
(* it is kept as a term naming the likelihood that is minimised and the    *)
(* data it is minimised over.                                              *)
(***************************************************************************)
EXTENDS Integers, Sequences, FiniteSets, TLC

VARIABLES
    pc,       \* position of the running call, or "idle" / "returned" / "raised"
    entry,    \* "builder" or "constructor": what the caller called
    args,     \* the arguments of the running call
    cls,      \* the calibrator class being constructed ("NoClass": none yet)
    self,     \* the instance: a function from the attributes set so far to their values
    trace,    \* the methods __init__ has called so far, in order
    exc,      \* the exception the call raised (NoExc: none)
    calls,    \* apply_calibration calls on the returned calibrator: <<argument, result>>
    prev      \* <<>> or <<snapshot>> of the calibrator an earlier call returned

vars == <<pc, entry, args, cls, self, trace, exc, calls, prev>>

----------------------------------------------------------------------------
(* Bounds of the model *)

MaxTasks == 2       \* T ranges over 1..MaxTasks
NumExamples == 3    \* N, the number of rows of every matrix
MaxModels == 2      \* len(models) ranges over 0..MaxModels
MaxSeed == 2        \* number of distinct datasets per shape
MaxApply == 2       \* apply_calibration calls followed per calibrator

----------------------------------------------------------------------------
(* Python values *)

None == << >>
Some(s) == << s >>
PyStr(m) == IF m = None THEN "None" ELSE m[1]

NoObject == [k \in {} |-> 0]
SetAttr(obj, name, val) ==
    [k \in (DOMAIN obj) \cup {name} |-> IF k = name THEN val ELSE obj[k]]
HasAttr(obj, name) == name \in DOMAIN obj

NoExc == [type |-> "none", origin |-> "none", msg |-> ""]

----------------------------------------------------------------------------
(* Inputs *)

Classes == {"ZScalingCalibrator", "TScalingCalibrator", "ZelikmanCalibrator"}

CalibrationMethods ==
    {None, Some("zscaling"), Some("tscaling"), Some("zelikman_interval"),
     Some("not_a_method"), Some("zelikman")}
UncertaintyMethods == {"ensemble", "mve"}
Metrics == {"stdev", "interval", "ence"}
DatasetTypes == {"regression", "classification", "multiclass"}
Percentiles == {50, 95}

(* The calibration dataset number s with t tasks: its targets, and what   *)
(* the uncertainty predictor built over it reports (predictions and raw   *)
(* variances, the latter 1 or 4).  Each is a matrix: a sequence of         *)
(* NumExamples rows of t entries.                                          *)
Dataset(s, t) ==
    [targets |-> [i \in 1..NumExamples |-> [j \in 1..t |-> (i + j) % 2]],
     uncal_preds |-> [i \in 1..NumExamples |-> [j \in 1..t |-> (s * i + j) % 4]],
     uncal_vars |-> [i \in 1..NumExamples |->
                        [j \in 1..t |-> IF (s + i + j) % 2 = 0 THEN 1 ELSE 4]]]

Datasets == {Dataset(s, t) : s \in 1..MaxSeed, t \in 1..MaxTasks}

NumTasks(m) == Len(m[1])
Column(m, j) == [i \in 1..Len(m) |-> m[i][j]]

CallArgs ==
    [calibration_method : CalibrationMethods,
     uncertainty_method : UncertaintyMethods,
     regression_calibrator_metric : Metrics,
     interval_percentile : Percentiles,
     calibration_data : Datasets,
     num_models : 0..MaxModels,
     dataset_type : DatasetTypes]

----------------------------------------------------------------------------
(* uncertainty_calibrator_builder, lines 267-284 *)

supported_calibrators ==
    [zscaling |-> "ZScalingCalibrator",
     tscaling |-> "TScalingCalibrator",
     zelikman_interval |-> "ZelikmanCalibrator"]

(* dict.keys() in insertion order *)
supported_keys == <<"zscaling", "tscaling", "zelikman_interval">>

(* mutant: the default strategy is ZelikmanCalibrator only for 'interval' *)
default_method_interval_only(calibration_method, dataset_type, metric) ==
    IF calibration_method = None
    THEN IF dataset_type = "regression"
         THEN IF metric = "interval" THEN Some("zelikman_interval") ELSE Some("zscaling")
         ELSE calibration_method
    ELSE calibration_method

(* lines 267-272: the default, taken only when the method is None *)
default_method(calibration_method, dataset_type, metric) ==
    IF calibration_method = None
    THEN IF dataset_type = "regression"
         THEN IF metric = "stdev" THEN Some("zscaling") ELSE Some("zelikman_interval")
         ELSE calibration_method
    ELSE calibration_method

(* mutant: the lookup falls back to ZScalingCalibrator when no method is given *)
dict_get_fallback(method) ==
    IF method = None THEN Some("ZScalingCalibrator")
    ELSE IF method[1] \in DOMAIN supported_calibrators
    THEN Some(supported_calibrators[method[1]])
    ELSE None

(* line 281: supported_calibrators.get(calibration_method, None) *)
dict_get(method) ==
    IF method # None /\ method[1] \in DOMAIN supported_calibrators
    THEN Some(supported_calibrators[method[1]])
    ELSE None

(* mutant: the message lists the options and leaves the value out *)
not_supported_msg_options_only(method) ==
    "Calibrator type is not currently supported. Avalable options are: dict_keys(['"
        \o supported_keys[1] \o "', '" \o supported_keys[2] \o "', '"
        \o supported_keys[3] \o "'])"

(* line 284: the f-string of the NotImplementedError *)
not_supported_msg(method) ==
    "Calibrator type " \o PyStr(method)
        \o " is not currently supported. Avalable options are: dict_keys(['"
        \o supported_keys[1] \o "', '" \o supported_keys[2] \o "', '"
        \o supported_keys[3] \o "'])"

----------------------------------------------------------------------------
(* numpy / scipy on the values of the model *)

Abs(x) == IF x < 0 THEN -x ELSE x

(* np.sqrt of a raw variance (a perfect square) *)
ISqrt(v) == CHOOSE r \in 0..v : r * r = v

RECURSIVE InsertSorted(_, _)
InsertSorted(x, s) ==
    IF s = << >> THEN << x >>
    ELSE IF x <= Head(s) THEN << x >> \o s
    ELSE << Head(s) >> \o InsertSorted(x, Tail(s))

RECURSIVE SortAsc(_)
SortAsc(s) == IF s = << >> THEN << >> ELSE InsertSorted(Head(s), SortAsc(Tail(s)))

(* np.percentile(a, q) of one column, linear interpolation between the    *)
(* order statistics around the rank q/100 * (n - 1).  The column is in     *)
(* units of 1/2, the result in units of 1/200.                             *)
percentile(col, q) ==
    LET a == SortAsc(col)
        rank == q * (Len(a) - 1)
        lo == (rank \div 100) + 1
        fr == rank % 100
    IN  IF fr = 0 THEN 100 * a[lo] ELSE 100 * a[lo] + fr * (a[lo + 1] - a[lo])

(* uncal_preds - targets, elementwise *)
errors_of(preds, targets) ==
    [i \in 1..Len(preds) |-> [j \in 1..NumTasks(preds) |-> preds[i][j] - targets[i][j]]]

(* scipy.optimize.fmin(objective, initial_guess) returns xopt alone       *)
(* (full_output is off), an array with one entry per entry of             *)
(* initial_guess.  The objectives of lines 115-119 and 181-185 sum over   *)
(* axis 0 only and so return one value per task; fmin needs a scalar and  *)
(* takes a one-entry array for one, and rejects anything longer.          *)
fmin_accepts(t) == t = 1

fmin(likelihood, errors, uncal_vars, df) ==
    [j \in 1..NumTasks(errors) |->
        [argmin |-> likelihood, errors |-> Column(errors, j),
         uncal_vars |-> Column(uncal_vars, j), df |-> df]]

fmin_error ==
    [type |-> "ValueError", origin |-> "calibrate",
     msg |-> "The user-provided objective function must return a scalar value."]

(* a fitted value: the minimiser times a quantile factor *)
Scaled(x, factor) == [x |-> x, times |-> factor]

(* the stored scaling: its numpy shape and its entries in row-major order *)
Array(shape, entries) == [shape |-> shape, entries |-> entries]
Size(a) == Len(a.entries)

----------------------------------------------------------------------------
(* calibrate of the three classes: the value assigned to self.scaling *)

(* ZScalingCalibrator.calibrate, lines 108-128 (given that fmin returned) *)
ZScaling_calibrate(obj) ==
    LET p == obj["calibration_predictor"]
        errors == errors_of(p.uncal_preds, obj["calibration_data"].targets)
        sol == fmin("normal_nll", errors, p.uncal_vars, 0)
        stdev_scaling == sol[1]
    IN  IF obj["regression_calibrator_metric"] = "stdev"
        THEN Array(<< >>, << Scaled(stdev_scaling, <<"1">>) >>)
        ELSE Array(<< >>, << Scaled(stdev_scaling,
                      <<"erfinv(p/100)*sqrt(2)", obj["interval_percentile"]>>) >>)

(* TScalingCalibrator.calibrate, lines 173-194 (given that fmin returned) *)
TScaling_calibrate(obj) ==
    LET p == obj["calibration_predictor"]
        df == obj["num_models"] - 1
        errors == errors_of(p.uncal_preds, obj["calibration_data"].targets)
        sol == fmin("student_t_nll", errors, p.uncal_vars, df)
        stdev_scaling == sol[1]
    IN  IF obj["regression_calibrator_metric"] = "stdev"
        THEN Array(<< >>, << Scaled(stdev_scaling, <<"1">>) >>)
        ELSE Array(<< >>, << Scaled(stdev_scaling,
                      <<"t.ppf((p/100+1)/2,df)", obj["interval_percentile"], df>>) >>)

(* mutant: in 'stdev' mode the quantile is taken at the 68th percentile *)
Zelikman_calibrate_by_metric(obj) ==
    LET p == obj["calibration_predictor"]
        errors == errors_of(p.uncal_preds, obj["calibration_data"].targets)
        t == NumTasks(errors)
        q == IF obj["regression_calibrator_metric"] = "stdev"
             THEN 68 ELSE obj["interval_percentile"]
        abs_zscore_preds ==
            [i \in 1..Len(errors) |->
                [j \in 1..t |-> (2 * Abs(errors[i][j])) \div ISqrt(p.uncal_vars[i][j])]]
    IN  Array(<<1, t>>, [j \in 1..t |-> percentile(Column(abs_zscore_preds, j), q)])

(* ZelikmanCalibrator.calibrate, lines 236-242 *)
Zelikman_calibrate(obj) ==
    LET p == obj["calibration_predictor"]
        errors == errors_of(p.uncal_preds, obj["calibration_data"].targets)
        t == NumTasks(errors)
        abs_zscore_preds ==
            [i \in 1..Len(errors) |->
                [j \in 1..t |-> (2 * Abs(errors[i][j])) \div ISqrt(p.uncal_vars[i][j])]]
        interval_scaling ==
            [j \in 1..t |-> percentile(Column(abs_zscore_preds, j), obj["interval_percentile"])]
    IN  Array(<<1, t>>, interval_scaling)

----------------------------------------------------------------------------
(* apply_calibration of the three classes: the pair it returns *)

(* numpy broadcasting of the stored scaling against a (rows, tasks) matrix *)
Broadcast(scaling, j) ==
    IF scaling.shape = << >> THEN scaling.entries[1] ELSE scaling.entries[j]

(* ZScalingCalibrator.apply_calibration, lines 130-134 *)
ZScaling_apply(obj, uncal_predictor) ==
    LET uncal_preds == uncal_predictor.uncal_preds
        uncal_vars == uncal_predictor.uncal_vars
        cal_stdev ==
            [i \in 1..Len(uncal_vars) |-> [j \in 1..NumTasks(uncal_vars) |->
                [sqrt |-> <<uncal_vars[i][j], 1>>, times |-> Broadcast(obj["scaling"], j)]]]
    IN  << uncal_preds, cal_stdev >>

(* TScalingCalibrator.apply_calibration, lines 196-200 *)
TScaling_apply(obj, uncal_predictor) ==
    LET uncal_preds == uncal_predictor.uncal_preds
        uncal_vars == uncal_predictor.uncal_vars
        cal_stdev ==
            [i \in 1..Len(uncal_vars) |-> [j \in 1..NumTasks(uncal_vars) |->
                [sqrt |-> <<uncal_vars[i][j], obj["num_models"] - 1>>,
                 times |-> Broadcast(obj["scaling"], j)]]]
    IN  << uncal_preds, cal_stdev >>

(* ZelikmanCalibrator.apply_calibration, lines 244-248 *)
Zelikman_apply(obj, uncal_predictor) ==
    LET uncal_preds == uncal_predictor.uncal_preds
        uncal_vars == uncal_predictor.uncal_vars
        cal_stdev ==
            [i \in 1..Len(uncal_vars) |-> [j \in 1..NumTasks(uncal_vars) |->
                ISqrt(uncal_vars[i][j]) * Broadcast(obj["scaling"], j)]]
    IN  << uncal_preds, cal_stdev >>

----------------------------------------------------------------------------
(* raise_argument_errors and the labels *)

(* mutant: the subclass does not override the base class's empty check *)
argument_error_base(c, obj) == NoExc

(* lines 103-106, 168-171, 231-234: the exception raise_argument_errors   *)
(* raises for an instance of class c, NoExc when it returns               *)
argument_error(c, obj) ==
    IF obj["dataset_type"] # "regression"
    THEN [type |-> "ValueError", origin |-> "raise_argument_errors",
          msg |-> (CASE c = "ZScalingCalibrator" -> "Z Score Scaling"
                     [] c = "TScalingCalibrator" -> "T Score Scaling"
                     [] c = "ZelikmanCalibrator" -> "Crude Scaling")
                  \o " is only compatible with regression datasets."]
    ELSE NoExc

(* mutant: the interval label of TScalingCalibrator loses its percentile *)
label_of_no_percentile(c, uncertainty_method, obj) ==
    CASE c = "ZScalingCalibrator" ->
           IF obj["regression_calibrator_metric"] = "stdev"
           THEN uncertainty_method \o "_zscaling_stdev"
           ELSE uncertainty_method \o "_zscaling_"
                    \o ToString(obj["interval_percentile"]) \o "interval"
      [] c = "TScalingCalibrator" ->
           IF obj["regression_calibrator_metric"] = "stdev"
           THEN uncertainty_method \o "_tscaling_stdev"
           ELSE uncertainty_method \o "_tscaling_interval"
      [] c = "ZelikmanCalibrator" ->
           uncertainty_method \o "_zelikman_"
               \o ToString(obj["interval_percentile"]) \o "interval"

(* lines 98-101, 163-166, 229: the f-strings assigned to self.label *)
label_of(c, uncertainty_method, obj) ==
    CASE c = "ZScalingCalibrator" ->
           IF obj["regression_calibrator_metric"] = "stdev"
           THEN uncertainty_method \o "_zscaling_stdev"
           ELSE uncertainty_method \o "_zscaling_"
                    \o ToString(obj["interval_percentile"]) \o "interval"
      [] c = "TScalingCalibrator" ->
           IF obj["regression_calibrator_metric"] = "stdev"
           THEN uncertainty_method \o "_tscaling_stdev"
           ELSE uncertainty_method \o "_tscaling_"
                    \o ToString(obj["interval_percentile"]) \o "interval"
      [] c = "ZelikmanCalibrator" ->
           uncertainty_method \o "_zelikman_"
               \o ToString(obj["interval_percentile"]) \o "interval"

----------------------------------------------------------------------------
(* The state machine *)

Init ==
    /\ pc = "idle"
    /\ entry = "none"
    /\ args \in CallArgs
    /\ cls = "NoClass"
    /\ self = NoObject
    /\ trace = << >>
    /\ exc = NoExc
    /\ calls = << >>
    /\ prev = << >>

(* the caller calls uncertainty_calibrator_builder with the arguments args *)
CallBuilder ==
    /\ pc = "idle"
    /\ pc' = "builder"
    /\ entry' = "builder"
    /\ UNCHANGED <<args, cls, self, trace, exc, calls, prev>>

(* the caller calls the constructor of one of the classes directly *)
CallConstructor ==
    /\ pc = "idle"
    /\ args.calibration_method = None
    /\ \E c \in Classes : cls' = c
    /\ pc' = "init"
    /\ entry' = "constructor"
    /\ UNCHANGED <<args, self, trace, exc, calls, prev>>

(* lines 267-284: resolve the class, or raise NotImplementedError *)
uncertainty_calibrator_builder ==
    /\ pc = "builder"
    /\ LET calibration_method ==
               default_method(args.calibration_method, args.dataset_type,
                              args.regression_calibrator_metric)
           calibrator_class == dict_get(calibration_method)
       IN  IF calibrator_class = None
           THEN /\ exc' = [type |-> "NotImplementedError", origin |-> "builder",
                           msg |-> not_supported_msg(calibration_method)]
                /\ pc' = "raised"
                /\ cls' = cls
           ELSE /\ cls' = calibrator_class[1]
                /\ pc' = "init"
                /\ exc' = exc
    /\ UNCHANGED <<entry, args, self, trace, calls, prev>>

(* lines 32-36: UncertaintyCalibrator.__init__ stores the configuration *)
init_store ==
    /\ pc = "init"
    /\ self' = [calibration_data |-> args.calibration_data,
                regression_calibrator_metric |-> args.regression_calibrator_metric,
                interval_percentile |-> args.interval_percentile,
                dataset_type |-> args.dataset_type,
                num_models |-> args.num_models]
    /\ pc' = "stored"
    /\ UNCHANGED <<entry, args, cls, trace, exc, calls, prev>>

(* line 38: self.raise_argument_errors() *)
raise_argument_errors ==
    /\ pc = "stored"
    /\ trace' = Append(trace, "raise_argument_errors")
    /\ exc' = argument_error(cls, self)
    /\ pc' = IF exc' = NoExc THEN "validated" ELSE "raised"
    /\ UNCHANGED <<entry, args, cls, self, calls, prev>>

(* lines 40-49: the predictor over the calibration data.  The predictor   *)
(* is a collaborator outside this file: what it reports for a dataset is   *)
(* carried by the dataset of the model.                                    *)
uncertainty_predictor_builder ==
    /\ pc = "validated"
    /\ trace' = Append(trace, "uncertainty_predictor_builder")
    /\ self' = SetAttr(self, "calibration_predictor",
                       [uncal_preds |-> args.calibration_data.uncal_preds,
                        uncal_vars |-> args.calibration_data.uncal_vars])
    /\ pc' = "built"
    /\ UNCHANGED <<entry, args, cls, exc, calls, prev>>

(* mutant: the class does not override the base class's empty calibrate *)
calibrate_base ==
    /\ pc = "built"
    /\ trace' = Append(trace, "calibrate")
    /\ pc' = "calibrated"
    /\ UNCHANGED <<entry, args, cls, self, exc, calls, prev>>

(* line 51: self.calibrate(), of the class of the instance *)
calibrate ==
    /\ pc = "built"
    /\ trace' = Append(trace, "calibrate")
    /\ IF cls = "ZelikmanCalibrator"
       THEN /\ self' = SetAttr(self, "scaling", Zelikman_calibrate(self))
            /\ pc' = "calibrated"
            /\ exc' = exc
       ELSE IF fmin_accepts(NumTasks(self["calibration_predictor"].uncal_preds))
       THEN /\ self' = SetAttr(self, "scaling",
                               IF cls = "ZScalingCalibrator"
                               THEN ZScaling_calibrate(self)
                               ELSE TScaling_calibrate(self))
            /\ pc' = "calibrated"
            /\ exc' = exc
       ELSE /\ exc' = fmin_error
            /\ pc' = "raised"
            /\ self' = self
    /\ UNCHANGED <<entry, args, cls, calls, prev>>

(* the rest of the subclass __init__ (the label), then the constructor    *)
(* returns, and with it the builder (line 298)                             *)
set_label ==
    /\ pc = "calibrated"
    /\ self' = SetAttr(self, "label", label_of(cls, args.uncertainty_method, self))
    /\ pc' = "returned"
    /\ UNCHANGED <<entry, args, cls, trace, exc, calls, prev>>

(* the predictors the caller builds over evaluation data *)
EvalPredictors(t) ==
    {[uncal_preds |-> Dataset(s, t).uncal_preds, uncal_vars |-> Dataset(s, t).uncal_vars] :
        s \in 1..MaxSeed}

(* mutant: apply_calibration folds the batch's variances into the scaling *)
apply_calibration_rescaling ==
    /\ pc = "returned"
    /\ Len(calls) < MaxApply
    /\ \E uncal_predictor \in EvalPredictors(NumTasks(args.calibration_data.targets)) :
          /\ calls' = Append(calls,
                     << uncal_predictor,
                        CASE cls = "ZScalingCalibrator" -> ZScaling_apply(self, uncal_predictor)
                          [] cls = "TScalingCalibrator" -> TScaling_apply(self, uncal_predictor)
                          [] cls = "ZelikmanCalibrator" -> Zelikman_apply(self, uncal_predictor) >>)
          /\ self' = SetAttr(self, "scaling",
                        Array(<<Len(uncal_predictor.uncal_vars),
                                NumTasks(uncal_predictor.uncal_vars)>>,
                              calls'[Len(calls')][2][2][1]))
    /\ UNCHANGED <<pc, entry, args, cls, trace, exc, prev>>

(* the caller applies the returned calibrator to an evaluation predictor *)
apply_calibration ==
    /\ pc = "returned"
    /\ Len(calls) < MaxApply
    /\ \E uncal_predictor \in EvalPredictors(NumTasks(args.calibration_data.targets)) :
          calls' = Append(calls,
                     << uncal_predictor,
                        CASE cls = "ZScalingCalibrator" -> ZScaling_apply(self, uncal_predictor)
                          [] cls = "TScalingCalibrator" -> TScaling_apply(self, uncal_predictor)
                          [] cls = "ZelikmanCalibrator" -> Zelikman_apply(self, uncal_predictor) >>)
    /\ UNCHANGED <<pc, entry, args, cls, self, trace, exc, prev>>

(* the caller keeps the returned calibrator and makes the same call again *)
(* with another regression_calibrator_metric                               *)
CallAgain ==
    /\ pc = "returned"
    /\ prev = << >>
    /\ calls = << >>
    /\ prev' = << [cls |-> cls, self |-> self, args |-> args] >>
    /\ \E m \in Metrics \ {args.regression_calibrator_metric} :
          args' = [args EXCEPT !.regression_calibrator_metric = m]
    /\ pc' = IF entry = "builder" THEN "builder" ELSE "init"
    /\ cls' = IF entry = "builder" THEN "NoClass" ELSE cls
    /\ self' = NoObject
    /\ trace' = << >>
    /\ UNCHANGED <<entry, exc, calls>>

Next ==
    \/ CallBuilder
    \/ CallConstructor
    \/ uncertainty_calibrator_builder
    \/ init_store
    \/ raise_argument_errors
    \/ uncertainty_predictor_builder
    \/ calibrate
    \/ set_label
    \/ apply_calibration
    \/ CallAgain

Spec == Init /\ [][Next]_vars

----------------------------------------------------------------------------
(* Auxiliary operators of the properties *)

(* sub occurs in str *)
Contains(str, sub) ==
    \E i \in 1..(Len(str) - Len(sub) + 1) : SubSeq(str, i, i + Len(sub) - 1) = sub

IsPrefix(s, t) == Len(s) <= Len(t) /\ SubSeq(t, 1, Len(s)) = s

ConstructionOrder == <<"raise_argument_errors", "uncertainty_predictor_builder", "calibrate">>

RegistryNames == {"zscaling", "tscaling", "zelikman_interval"}

(* the builder's call has left the resolution step of lines 267-284 *)
BuilderResolved == entry = "builder" /\ pc \notin {"idle", "builder"}

(* T of the running call *)
T == NumTasks(args.calibration_data.targets)

----------------------------------------------------------------------------
(* C1: a calibrator of any of the three classes whose dataset_type is not  *)
(* 'regression' never gets past raise_argument_errors: the call ends with  *)
(* the ValueError of raise_argument_errors, nothing but                    *)
(* raise_argument_errors has been called, and the instance has no          *)
(* calibration_predictor, no scaling and no label.                         *)
C1_NonRegressionRejected ==
    (cls \in Classes /\ HasAttr(self, "dataset_type")
        /\ self["dataset_type"] # "regression" /\ pc # "stored")
    => /\ pc = "raised"
       /\ exc.type = "ValueError"
       /\ exc.origin = "raise_argument_errors"
       /\ trace = <<"raise_argument_errors">>
       /\ DOMAIN self \cap {"calibration_predictor", "scaling", "label"} = {}

C1_Witness ==
    /\ pc = "raised"
    /\ cls = "TScalingCalibrator"
    /\ exc.origin = "raise_argument_errors"
    /\ self["dataset_type"] = "classification"

(* C2: once the builder has resolved the strategy: with no method given    *)
(* and a regression dataset the class is ZScalingCalibrator for metric     *)
(* 'stdev' and ZelikmanCalibrator for every other metric; with a           *)
(* registered name given it is the class registered under the name,        *)
(* whatever dataset_type and metric are; and that class's constructor was  *)
(* entered.                                                                *)
C2_BuilderResolution ==
    BuilderResolved =>
        LET m == args.calibration_method
            constructs(c) == cls = c /\ exc.origin # "builder"
        IN  /\ (m = None /\ args.dataset_type = "regression"
                    /\ args.regression_calibrator_metric = "stdev")
                   => constructs("ZScalingCalibrator")
            /\ (m = None /\ args.dataset_type = "regression"
                    /\ args.regression_calibrator_metric # "stdev")
                   => constructs("ZelikmanCalibrator")
            /\ (m = Some("zscaling")) => constructs("ZScalingCalibrator")
            /\ (m = Some("tscaling")) => constructs("TScalingCalibrator")
            /\ (m = Some("zelikman_interval")) => constructs("ZelikmanCalibrator")

C2_Witness ==
    /\ BuilderResolved
    /\ pc = "returned"
    /\ args.calibration_method = None
    /\ args.regression_calibrator_metric = "ence"
    /\ cls = "ZelikmanCalibrator"

(* C3: for a calibration_method string that is not a registered name the   *)
(* builder raises NotImplementedError, the message names the value and     *)
(* lists the three registered names, no constructor has run and no         *)
(* predictor was built.                                                    *)
C3_UnknownMethodRejected ==
    (BuilderResolved /\ args.calibration_method # None
        /\ args.calibration_method[1] \notin RegistryNames)
    => /\ pc = "raised"
       /\ exc.type = "NotImplementedError"
       /\ Contains(exc.msg, " " \o args.calibration_method[1] \o " ")
       /\ \A k \in RegistryNames : Contains(exc.msg, "'" \o k \o "'")
       /\ cls = "NoClass"
       /\ DOMAIN self = {}
       /\ trace = << >>

C3_Witness ==
    /\ pc = "raised"
    /\ args.calibration_method = Some("not_a_method")
    /\ exc.type = "NotImplementedError"

(* C4: a TScalingCalibrator whose num_models is at most 1 never gets past  *)
(* raise_argument_errors: the call ends with the error of                  *)
(* raise_argument_errors, before the predictor is built and before         *)
(* calibrate runs.                                                         *)
C4_SmallEnsembleRejected ==
    (cls = "TScalingCalibrator" /\ HasAttr(self, "num_models")
        /\ self["num_models"] <= 1 /\ pc # "stored")
    => /\ pc = "raised"
       /\ exc.origin = "raise_argument_errors"
       /\ trace = <<"raise_argument_errors">>

(* C5: __init__ calls raise_argument_errors, the predictor builder and     *)
(* calibrate in this order, each at most once and only after the           *)
(* configuration is stored; a calibrator that was returned has had all     *)
(* three called exactly once and has its scaling; apply_calibration has    *)
(* run only on a returned calibrator.                                      *)
C5_ConstructionOrder ==
    /\ IsPrefix(trace, ConstructionOrder)
    /\ trace # << >> =>
          {"calibration_data", "regression_calibrator_metric", "interval_percentile",
           "dataset_type", "num_models"} \subseteq DOMAIN self
    /\ HasAttr(self, "scaling") => trace = ConstructionOrder
    /\ pc = "returned" => trace = ConstructionOrder /\ HasAttr(self, "scaling")
    /\ calls # << >> => pc = "returned"

C5_Witness ==
    /\ pc = "returned"
    /\ entry = "builder"
    /\ calls # << >>
    /\ HasAttr(self, "scaling")

(* C6: a step that makes an apply_calibration call leaves the calibrator   *)
(* (every attribute, its class) unchanged, returns the predictions of its  *)
(* argument as the first result, and returns what every earlier call on    *)
(* the same argument returned.                                             *)
C6_ApplyIsPure ==
    [][calls' # calls =>
          /\ self' = self
          /\ cls' = cls
          /\ LET n == Len(calls')
             IN  /\ n = Len(calls) + 1
                 /\ calls'[n][2][1] = calls'[n][1].uncal_preds
                 /\ \A i \in 1..Len(calls) :
                       /\ calls'[i] = calls[i]
                       /\ calls[i][1] = calls'[n][1] => calls[i][2] = calls'[n][2]]_vars

C6_Witness ==
    /\ Len(calls) >= 2
    /\ calls[1][1] = calls[2][1]
    /\ cls = "TScalingCalibrator"

LabelSuffix ==
    IF cls # "ZelikmanCalibrator" /\ args.regression_calibrator_metric = "stdev"
    THEN "stdev"
    ELSE ToString(args.interval_percentile) \o "interval"

C8_LabelUsesRegistryName ==
    pc = "returned" =>
        self["label"] =
            args.uncertainty_method \o "_"
                \o (CHOOSE k \in RegistryNames : supported_calibrators[k] = cls)
                \o "_" \o LabelSuffix

(* C8 amended: the strategy part of the label is 'zscaling', 'tscaling'    *)
(* or, for ZelikmanCalibrator, 'zelikman' (not its registry name).         *)
C8_LabelPattern ==
    pc = "returned" =>
        self["label"] =
            args.uncertainty_method \o "_"
                \o (CASE cls = "ZScalingCalibrator" -> "zscaling"
                      [] cls = "TScalingCalibrator" -> "tscaling"
                      [] cls = "ZelikmanCalibrator" -> "zelikman")
                \o "_" \o LabelSuffix

C8_Witness ==
    /\ pc = "returned"
    /\ cls = "TScalingCalibrator"
    /\ args.regression_calibrator_metric = "interval"
    /\ self["label"] = "mve_tscaling_95interval"

(* C9: two ZelikmanCalibrators returned by calls that differ in            *)
(* regression_calibrator_metric alone have equal scaling and equal label,  *)
(* the label carries the percentile, and they return the same for every    *)
(* evaluation predictor.                                                   *)
C9_ZelikmanIgnoresMetric ==
    (pc = "returned" /\ prev # << >>
        /\ cls = "ZelikmanCalibrator" /\ prev[1].cls = "ZelikmanCalibrator")
    => /\ self["scaling"] = prev[1].self["scaling"]
       /\ self["label"] = prev[1].self["label"]
       /\ Contains(self["label"], ToString(args.interval_percentile) \o "interval")
       /\ \A u \in EvalPredictors(T) :
             Zelikman_apply(self, u) = Zelikman_apply(prev[1].self, u)

C9_Witness ==
    /\ pc = "returned"
    /\ prev # << >>
    /\ cls = "ZelikmanCalibrator"
    /\ prev[1].cls = "ZelikmanCalibrator"
    /\ prev[1].args.regression_calibrator_metric = "stdev"
    /\ args.regression_calibrator_metric = "interval"
    /\ prev[1].args.calibration_data = args.calibration_data
    /\ T = MaxTasks

(* C10: with no method given and a dataset_type other than 'regression'    *)
(* the builder raises the NotImplementedError that names None; no          *)
(* constructor has run and no predictor was built.                         *)
C10_NoDefaultOutsideRegression ==
    (BuilderResolved /\ args.calibration_method = None
        /\ args.dataset_type # "regression")
    => /\ pc = "raised"
       /\ exc.type = "NotImplementedError"
       /\ exc.origin = "builder"
       /\ Contains(exc.msg, " None ")
       /\ cls = "NoClass"
       /\ DOMAIN self = {}
       /\ trace = << >>

C10_Witness ==
    /\ pc = "raised"
    /\ entry = "builder"
    /\ args.calibration_method = None
    /\ args.dataset_type = "classification"
    /\ exc.type = "NotImplementedError"

====
